---- MODULE Spec2Model ----
(***************************************************************************)
(* A model of search_service.py: the TTL cache (_cache_store,              *)
(* get_cache_key, get_cached_result, set_cached_result), the text helpers, *)
(* the result projections, enhance_search_results, perform_fallback_search *)
(* and the orchestrator search_web, run by concurrent callers on one       *)
(* asyncio event loop.                                                     *)
(*                                                                         *)
(* Python values are modelled as follows.  A str is a TLA+ string, a list  *)
(* is a sequence, a dict is a function whose domain is the set of its      *)
(* keys.  None is NoneStr where a str is expected and NoneDict where a     *)
(* dict is expected.  time.time() is the integer clock `now` (seconds).    *)
(* A SHA-256 digest is modelled by its pre-image: the digest is taken to   *)
(* be collision free, so two keys are equal iff the digested strings are.  *)
(***************************************************************************)
EXTENDS Integers, Sequences, FiniteSets, TLC

VARIABLES
    cache_store,    \* _cache_store: key -> <<data, timestamp>>
    now,            \* the wall clock read by time.time() and datetime.now()
    tavily_client,  \* TRUE iff the module global tavily_client is not None
    nlp,            \* TRUE iff the module global nlp is not None
    req,            \* the calls of search_web, one record per caller
    running,        \* the caller whose coroutine occupies the event loop, or 0
    probe           \* the last direct calls of the cache functions

vars == <<cache_store, now, tavily_client, nlp, req, running, probe>>

-----------------------------------------------------------------------------
(* Bounds of the model *)

\* the calls of search_web in one run, numbered in the order they are issued
NumCalls == 2

Callers == 1..NumCalls

\* The instants at which the clock is observed: the ages 0, 300 and 600.
Instants == {0, 300, 600}

-----------------------------------------------------------------------------
(* Python values *)

NoneStr == "<None>"
NoneDict == [NoneType |-> "None"]
EmptyDict == <<>>

Min(a, b) == IF a < b THEN a ELSE b

\* d.get(k, dflt)
Get(d, k, dflt) == IF k \in DOMAIN d THEN d[k] ELSE dflt

\* truth value of an Optional[str]
TruthyStr(s) == s /= NoneStr /\ s /= ""

\* a variant of Prefix that cuts nothing
Prefix_Whole(s, n) == s

\* s[:n]
Prefix(s, n) == SubSeq(s, 1, Min(n, Len(s)))

\* {**d, k: v}
DictWith(d, k, v) == [x \in (DOMAIN d) \cup {k} |-> IF x = k THEN v ELSE d[x]]

\* del d[k]
DictDel(d, k) == [x \in (DOMAIN d) \ {k} |-> d[x]]

\* s * n
RECURSIVE Rep(_, _)
Rep(n, s) ==
    IF n = 0 THEN ""
    ELSE IF n % 2 = 0 THEN LET h == Rep(n \div 2, s) IN h \o h
    ELSE s \o Rep(n - 1, s)

-----------------------------------------------------------------------------
(* Configuration *)

CACHE_TTL == 600
NEWS_CACHE_TTL == 300

\* SearchConfig(): the dataclass defaults
SearchConfig ==
    [search_depth |-> "advanced", include_images |-> FALSE,
     include_domains |-> <<>>, exclude_domains |-> <<>>,
     max_results |-> 10, search_type |-> "general",
     time_frame |-> "auto", language |-> "en"]

-----------------------------------------------------------------------------
(* The cache *)

\* json.dumps of a str (the values used need no escaping)
JsonStr(s) == "\"" \o s \o "\""

\* a variant of get_cache_key that digests max_results too
get_cache_key_WithMaxResults(query, config) ==
    query \o ":" \o
    "{\"depth\": " \o JsonStr(config.search_depth) \o
    ", \"type\": " \o JsonStr(config.search_type) \o
    ", \"time\": " \o JsonStr(config.time_frame) \o
    ", \"max\": " \o (IF config.max_results = 10 THEN "10" ELSE "n") \o "}"

\* a variant of get_cache_key that digests the depth a news search is sent
\* with
get_cache_key_SentDepth(query, config) ==
    query \o ":" \o
    "{\"depth\": " \o JsonStr(IF config.search_type = "news" THEN "advanced"
                               ELSE config.search_depth) \o
    ", \"type\": " \o JsonStr(config.search_type) \o
    ", \"time\": " \o JsonStr(config.time_frame) \o "}"

\* get_cache_key(query, config): the string that is digested
get_cache_key(query, config) ==
    query \o ":" \o
    "{\"depth\": " \o JsonStr(config.search_depth) \o
    ", \"type\": " \o JsonStr(config.search_type) \o
    ", \"time\": " \o JsonStr(config.time_frame) \o "}"

\* ttl = NEWS_CACHE_TTL if config.search_type == "news" else CACHE_TTL
Ttl(config) == IF config.search_type = "news" THEN NEWS_CACHE_TTL ELSE CACHE_TTL

\* a variant of Fresh that takes an entry as old as its TTL for fresh
Fresh_Inclusive(t, timestamp, ttl) == t - timestamp <= ttl

\* a variant of Fresh with the comparison the wrong way round
Fresh_Inverted(t, timestamp, ttl) == t - timestamp > ttl

\* time.time() - timestamp < ttl
Fresh(t, timestamp, ttl) == t - timestamp < ttl

\* get_cached_result: the value returned, at clock t
get_cached_result(store, query, config, t) ==
    LET key == get_cache_key(query, config) IN
    IF key \in DOMAIN store /\ Fresh(t, store[key][2], Ttl(config))
    THEN store[key][1]
    ELSE NoneDict

\* a variant of get_cached_result_store that deletes every entry as old as
\* the TTL of the lookup
get_cached_result_store_Sweep(store, query, config, t) ==
    LET stale == {k \in DOMAIN store : ~Fresh(t, store[k][2], Ttl(config))} IN
    [k \in (DOMAIN store) \ stale |-> store[k]]

\* a variant of get_cached_result_store with a sliding expiration: a hit
\* stamps the entry with the time of the lookup
get_cached_result_store_Sliding(store, query, config, t) ==
    LET key == get_cache_key(query, config) IN
    IF key \notin DOMAIN store THEN store
    ELSE IF Fresh(t, store[key][2], Ttl(config))
         THEN DictWith(store, key, <<store[key][1], t>>)
         ELSE DictDel(store, key)

\* get_cached_result: the store it leaves (a stale entry is deleted)
get_cached_result_store(store, query, config, t) ==
    LET key == get_cache_key(query, config) IN
    IF key \in DOMAIN store /\ ~Fresh(t, store[key][2], Ttl(config))
    THEN DictDel(store, key)
    ELSE store

\* a variant of set_cached_result that keeps the entry a key already has
set_cached_result_KeepFirst(store, query, config, data, t) ==
    IF get_cache_key(query, config) \in DOMAIN store THEN store
    ELSE DictWith(store, get_cache_key(query, config), <<data, t>>)

\* a variant of set_cached_result whose key leaves the configuration out
set_cached_result_QueryOnly(store, query, config, data, t) ==
    DictWith(store, get_cache_key(query, SearchConfig), <<data, t>>)

\* set_cached_result: the store it leaves, at clock t
set_cached_result(store, query, config, data, t) ==
    DictWith(store, get_cache_key(query, config), <<data, t>>)

-----------------------------------------------------------------------------
(* Text helpers *)

Digits == {"0", "1", "2", "3", "4", "5", "6", "7", "8", "9"}

\* the characters matched by \s and removed by str.strip()
Whitespace == {" ", "\t", "\n", "\r", "\f"}

\* text[i-1], as a string of one character
Char(text, i) == SubSeq(text, i, i)

\* text[i-1:]
From(text, i) == SubSeq(text, i, Len(text))

\* the least element of a non-empty set of numbers
Least(S) == CHOOSE i \in S : \A j \in S : i <= j

\* does text match the word at position i, ignoring case (re.I): word is
\* given as the sequence of its letters, each in both cases
MatchesAt(text, i, word) ==
    /\ Len(text) >= i + Len(word) - 1
    /\ \A k \in 1..Len(word) : Char(text, i + k - 1) \in word[k]

LOGIN == <<{"l", "L"}, {"o", "O"}, {"g", "G"}, {"i", "I"}, {"n", "N"}>>
PAPER == <<{"p", "P"}, {"a", "A"}, {"p", "P"}, {"e", "E"}, {"r", "R"}>>
SUBSCRIBE ==
    <<{"s", "S"}, {"u", "U"}, {"b", "B"}, {"s", "S"}, {"c", "C"}, {"r", "R"},
      {"i", "I"}, {"b", "B"}, {"e", "E"}>>
ACCOUNT ==
    <<{"a", "A"}, {"c", "C"}, {"c", "C"}, {"o", "O"}, {"u", "U"}, {"n", "N"},
      {"t", "T"}>>
IMAGE == <<{"i", "I"}, {"m", "M"}, {"a", "A"}, {"g", "G"}, {"e", "E"}, {" "}>>

\* number of digits of text from position i on
DigitRun(text, i) ==
    LET stops == {j \in i..Len(text) : Char(text, j) \notin Digits} IN
    IF stops = {} THEN Len(text) - i + 1 ELSE Least(stops) - i

\* length of the match of (LOGIN|Subscribe|e-?Paper|Account|Image \d+:) at
\* position i of text, 0 if none: alternatives in order, the optional "-" greedy
BoilerplateMatch(text, i) ==
    IF Char(text, i) \notin {"l", "L", "s", "S", "e", "E", "a", "A", "i", "I"} THEN 0
    ELSE IF MatchesAt(text, i, LOGIN) THEN 5
    ELSE IF MatchesAt(text, i, SUBSCRIBE) THEN 9
    ELSE IF MatchesAt(text, i, <<{"e", "E"}, {"-"}>> \o PAPER) THEN 7
    ELSE IF MatchesAt(text, i, <<{"e", "E"}>> \o PAPER) THEN 6
    ELSE IF MatchesAt(text, i, ACCOUNT) THEN 7
    ELSE IF MatchesAt(text, i, IMAGE)
         THEN LET d == DigitRun(text, i + 6) IN
              IF d > 0 /\ i + 6 + d <= Len(text) /\ Char(text, i + 6 + d) = ":"
              THEN 7 + d ELSE 0
    ELSE 0

\* re.sub(r"(LOGIN|Subscribe|e-?Paper|Account|Image \d+:)", "", text, flags=re.I):
\* the leftmost match is deleted and the scan goes on after it
RECURSIVE SubBoilerplate(_)
SubBoilerplate(text) ==
    LET hits == {i \in 1..Len(text) : BoilerplateMatch(text, i) > 0} IN
    IF hits = {} THEN text
    ELSE LET i == Least(hits) IN
         SubSeq(text, 1, i - 1) \o SubBoilerplate(From(text, i + BoilerplateMatch(text, i)))

\* text with its leading whitespace removed
LStrip(text) ==
    IF text = "" \/ Head(text) \notin Whitespace THEN text
    ELSE LET keep == {i \in 1..Len(text) : Char(text, i) \notin Whitespace} IN
         IF keep = {} THEN "" ELSE From(text, Least(keep))

\* text with its trailing whitespace removed
RStrip(text) ==
    IF text = "" \/ Char(text, Len(text)) \notin Whitespace THEN text
    ELSE LET n == Len(text)
             back == {n + 1 - i : i \in {j \in 1..n : Char(text, j) \notin Whitespace}}
         IN  IF back = {} THEN "" ELSE SubSeq(text, 1, n + 1 - Least(back))

\* a variant of Strip that strips nothing (`if not query:`)
Strip_NoStrip(text) == text

\* str.strip()
Strip(text) == RStrip(LStrip(text))

\* re.sub(r"\s+", " ", text): every run of whitespace becomes one space
RECURSIVE SubWhitespace(_)
SubWhitespace(text) ==
    LET ws == {i \in 1..Len(text) : Char(text, i) \in Whitespace} IN
    IF ws = {} THEN text
    ELSE LET i == Least(ws) IN
         SubSeq(text, 1, i - 1) \o " " \o SubWhitespace(LStrip(From(text, i)))

\* clean_text(text)
clean_text(text) ==
    IF ~TruthyStr(text) THEN "" ELSE Strip(SubWhitespace(SubBoilerplate(text)))

\* doc.sents of the NLP backend, as str(s) of each: the text is cut after
\* every ".", "!" or "?" that ends it or is followed by whitespace
RECURSIVE Sents(_)
Sents(text) ==
    LET ends == {i \in 1..Len(text) :
                    /\ Char(text, i) \in {".", "!", "?"}
                    /\ (i = Len(text) \/ Char(text, i + 1) \in Whitespace)} IN
    IF Strip(text) = "" THEN <<>>
    ELSE IF ends = {} THEN <<Strip(text)>>
    ELSE LET i == Least(ends) IN
         <<Strip(SubSeq(text, 1, i))>> \o Sents(From(text, i + 1))

\* " ".join(parts)
RECURSIVE Join(_)
Join(parts) ==
    IF parts = <<>> THEN ""
    ELSE IF Len(parts) = 1 THEN parts[1]
    ELSE parts[1] \o " " \o Join(Tail(parts))

\* summarize_text(text, max_sentences)
summarize_text(text, max_sentences, nlpOn) ==
    IF ~TruthyStr(text) \/ ~nlpOn
    THEN (IF TruthyStr(text) THEN Prefix(text, 500) ELSE "")
    ELSE LET sentences == Sents(text) IN
         IF sentences = <<>> THEN Prefix(text, 500)
         ELSE Join(SubSeq(sentences, 1, Min(max_sentences, Len(sentences))))

\* text.split(sep) for a one-character sep
RECURSIVE Split(_, _)
Split(text, sep) ==
    LET at == {i \in 1..Len(text) : Char(text, i) = sep} IN
    IF at = {} THEN <<text>>
    ELSE LET i == Least(at) IN
         <<SubSeq(text, 1, i - 1)>> \o Split(From(text, i + 1), sep)

\* doc.noun_chunks of the NLP backend, as chunk.text of each: the words of
\* the text stand for the phrases the parser finds
NounChunks(text) == SelectSeq(Split(text, " "), LAMBDA w : w /= "")

\* extract_keywords(text, max_keywords)
extract_keywords(text, max_keywords, nlpOn) ==
    IF ~TruthyStr(text) \/ ~nlpOn THEN <<>>
    ELSE LET chunks == NounChunks(text) IN
         SubSeq(chunks, 1, Min(max_keywords, Len(chunks)))

\* a variant of extract_text_from_url that returns the text of the error
extract_text_from_url_ErrorText(page) ==
    IF page = NoneStr THEN "Error extracting text" ELSE clean_text(page)

\* extract_text_from_url(url): page is the text of the fetched page, or
\* NoneStr when requests.get or the parser raises
extract_text_from_url(page) == IF page = NoneStr THEN "" ELSE clean_text(page)


-----------------------------------------------------------------------------
(* Result projections and enhancement *)

\* c[:n] + "..." if len(c) > n else c
Truncate(c, n) == IF Len(c) > n THEN Prefix(c, n) \o "..." ELSE c

\* format_general_results(results)
format_general_results(results) ==
    [i \in 1..Len(results) |->
        LET r == results[i] IN
        [title |-> Get(r, "title", "No title"),
         content |-> Truncate(Get(r, "content", ""), 200),
         url |-> Get(r, "url", ""),
         score |-> Get(r, "score", 0),
         published_date |-> Get(r, "published_date", "Unknown")]]

\* r.get("url", "").split("/")[2] raises IndexError on a URL with fewer than
\* two slashes
format_news_raises(results) ==
    \E i \in 1..Len(results) :
        /\ TruthyStr(Get(results[i], "url", NoneStr))
        /\ Len(Split(Get(results[i], "url", ""), "/")) < 3

\* format_news_results(results), where it does not raise
format_news_results(results) ==
    [i \in 1..Len(results) |->
        LET r == results[i] IN
        [headline |-> Get(r, "title", "No headline"),
         summary |-> Truncate(Get(r, "content", ""), 150),
         source |-> IF TruthyStr(Get(r, "url", NoneStr))
                    THEN Split(Get(r, "url", ""), "/")[3] ELSE "",
         url |-> Get(r, "url", ""),
         published_date |-> Get(r, "published_date", "Unknown")]]

\* a variant of format_image_results that keeps every result
format_image_results_All(results) ==
    [i \in 1..Len(results) |->
        LET r == results[i] IN
        [title |-> Get(r, "title", "No title"),
         image_url |-> Get(r, "image_url", ""),
         source_url |-> Get(r, "url", ""),
         description |-> Truncate(Get(r, "content", ""), 100)]]

\* format_image_results(results): only the results with an image_url
format_image_results(results) ==
    LET kept == SelectSeq(results, LAMBDA r : TruthyStr(Get(r, "image_url", NoneStr))) IN
    [i \in 1..Len(kept) |->
        LET r == kept[i] IN
        [title |-> Get(r, "title", "No title"),
         image_url |-> Get(r, "image_url", ""),
         source_url |-> Get(r, "url", ""),
         description |-> Truncate(Get(r, "content", ""), 100)]]

\* a variant of NeedsFetch that fetches the URL of every result that has one
NeedsFetch_AnyUrl(r) == TruthyStr(Get(r, "url", NoneStr))

\* enhance_search_results: does the loop fetch the URL of result r
NeedsFetch(r) ==
    TruthyStr(Get(r, "url", NoneStr)) /\ Len(Get(r, "content", "")) < 100

\* enhance_search_results: the insight of one result; page is the outcome of
\* the URL fetch and is read only when the loop fetches
Insight(r, page, nlpOn) ==
    LET url == Get(r, "url", NoneStr)
        snippet == Get(r, "content", "")
        content == clean_text(IF NeedsFetch(r)
                              THEN snippet \o " " \o extract_text_from_url(page)
                              ELSE snippet)
    IN  [title |-> Get(r, "title", "No title"),
         url |-> url,
         summary |-> summarize_text(content, 3, nlpOn),
         keywords |-> extract_keywords(content, 5, nlpOn)]

\* a variant of AddInsight that puts the insight in front
AddInsight_Front(insights, insight) == <<insight>> \o insights

\* enhanced["insights"].append(insight)
AddInsight(insights, insight) == Append(insights, insight)

\* enhance_search_results: the dict built before the loop
EnhancedInit(response, config, t) ==
    [original_response |-> response,
     metadata |-> [query_time |-> t,
                   result_count |-> Len(Get(response, "results", <<>>)),
                   search_type |-> config.search_type],
     formatted_results |-> <<>>,
     insights |-> <<>>]

\* enhance_search_results: the projection by search type raises
FormatRaises(response, config) ==
    config.search_type = "news" /\ format_news_raises(Get(response, "results", <<>>))

\* enhance_search_results: the projection by search type
FormattedResults(response, config) ==
    LET results == Get(response, "results", <<>>) IN
    IF config.search_type = "news" THEN format_news_results(results)
    ELSE IF config.search_type = "image" THEN format_image_results(results)
    ELSE format_general_results(results)

\* enhance_search_results: the dict returned, from the dict the loop leaves
EnhancedFinal(enhanced, response, config) ==
    LET e == [enhanced EXCEPT !.formatted_results = FormattedResults(response, config)] IN
    IF TruthyStr(Get(response, "answer", NoneStr))
    THEN DictWith(e, "direct_answer", response.answer)
    ELSE e

\* the characters requests.utils.quote leaves as they are
Unreserved ==
    {"a", "b", "c", "d", "e", "f", "g", "h", "i", "j", "k", "l", "m", "n", "o", "p",
     "q", "r", "s", "t", "u", "v", "w", "x", "y", "z",
     "A", "B", "C", "D", "E", "F", "G", "H", "I", "J", "K", "L", "M", "N", "O", "P",
     "Q", "R", "S", "T", "U", "V", "W", "X", "Y", "Z",
     "0", "1", "2", "3", "4", "5", "6", "7", "8", "9", "_", ".", "-", "~", "/"}

\* the escapes of the other characters of the queries
Escapes ==
    [ch \in {" ", "&", "#", "+", "?", "=", "%"} |->
        CASE ch = " " -> "%20" [] ch = "&" -> "%26" [] ch = "#" -> "%23"
          [] ch = "+" -> "%2B" [] ch = "?" -> "%3F" [] ch = "=" -> "%3D"
          [] ch = "%" -> "%25"]

\* requests.utils.quote(s): every character that is not unreserved is
\* replaced by its escape
RECURSIVE Quote(_)
Quote(s) ==
    IF s = "" THEN ""
    ELSE IF Len(s) = 1 THEN (IF s \in Unreserved THEN s ELSE Escapes[s])
    ELSE LET h == Len(s) \div 2 IN
         Quote(SubSeq(s, 1, h)) \o Quote(SubSeq(s, h + 1, Len(s)))

\* perform_fallback_search: the URL requested for a query
FallbackUrl(query) ==
    "https://api.duckduckgo.com/?q=" \o Quote(Prefix(query, 400))
        \o "&format=json&no_html=1"

\* a variant of perform_fallback_search whose answer carries no source
perform_fallback_search_Untagged(query, data) ==
    IF data = NoneDict
    THEN [status |-> "error", message |-> "Search temporarily unavailable",
          error |-> "request failed"]
    ELSE [status |-> "fallback",
          answer |-> Get(data, "AbstractText", "No direct answer found."),
          related_topics |-> <<>>]

\* perform_fallback_search(query): data is the decoded JSON answer, or
\* NoneDict when the request or the decoding raises
perform_fallback_search(query, data) ==
    IF data = NoneDict
    THEN [status |-> "error", message |-> "Search temporarily unavailable",
          error |-> "request failed"]
    ELSE LET topics == Get(data, "RelatedTopics", <<>>)
             first == SubSeq(topics, 1, Min(3, Len(topics)))
         IN  [status |-> "fallback", source |-> "duckduckgo",
              answer |-> Get(data, "AbstractText", "No direct answer found."),
              related_topics |-> [i \in 1..Len(first) |-> Get(first[i], "Text", "")]]

\* search_web: the keyword arguments built for the Tavily client
Params(query, config) ==
    LET base == [query |-> Prefix(query, 400),
                 search_depth |-> config.search_depth,
                 include_images |-> config.include_images,
                 max_results |-> config.max_results,
                 language |-> config.language]
        p1 == IF config.include_domains /= <<>>
              THEN DictWith(base, "include_domains", config.include_domains) ELSE base
        p2 == IF config.exclude_domains /= <<>>
              THEN DictWith(p1, "exclude_domains", config.exclude_domains) ELSE p1
    IN  IF config.time_frame /= "auto"
        THEN DictWith(p2, "time_frame", config.time_frame) ELSE p2

\* a variant of Dispatch that sends the arguments of every type as they are
Dispatch_Unshaped(params, config) == params

\* perform_news_search / perform_image_search / perform_general_search: the
\* arguments that reach tavily_client.search
Dispatch(params, config) ==
    IF config.search_type = "news" THEN [params EXCEPT !.search_depth = "advanced"]
    ELSE IF config.search_type = "image" THEN [params EXCEPT !.include_images = TRUE]
    ELSE params

\* the last answer of search_the_web
NotFound == "I couldn't find a good answer for that query."

\* search_the_web(query, phone_number): the string it makes of the result of
\* its call search_web(query, phone_number)
search_the_web(result) ==
    IF "direct_answer" \in DOMAIN result THEN result.direct_answer
    ELSE IF Get(result, "insights", <<>>) /= <<>> THEN result.insights[1].summary
    ELSE IF Get(result, "formatted_results", <<>>) /= <<>>
         THEN result.formatted_results[1].content
    ELSE NotFound

-----------------------------------------------------------------------------
(* Inputs and environment outcomes *)

\* the queries callers pass: empty, whitespace only, and a word
Queries == {"", " \t ", "ai"}

\* the configurations callers pass
Configs ==
    {SearchConfig,
     [SearchConfig EXCEPT !.max_results = 1],
     [SearchConfig EXCEPT !.search_type = "news", !.search_depth = "basic",
                          !.time_frame = "week"],
     [SearchConfig EXCEPT !.search_type = "image"]}

\* raw results a provider may return
RawShort ==
    [title |-> "Rain", url |-> "https://a.com/w",
     content |-> "Subscribe Rain today. Sun later.", score |-> 9]
RawLong ==
    [title |-> "Long", url |-> "b.com/long", content |-> Rep(201, "x"),
     image_url |-> "https://b.com/i.png"]
RawBare == [content |-> ""]
RawPic ==
    [title |-> "Pic", url |-> "https://c.com/p", content |-> "",
     image_url |-> "https://c.com/p.png"]

\* the payloads tavily_client.search may return
Responses ==
    {[results |-> <<>>],
     [results |-> <<RawShort>>],
     [results |-> <<RawBare>>, answer |-> ""],
     [results |-> <<RawShort, RawLong>>, answer |-> "Sunny"],
     [results |-> <<RawPic, RawBare, RawLong>>]}

\* the payloads it may return for the arguments sent: at most max_results results
ResponsesFor(params) == {x \in Responses : Len(x.results) <= params.max_results}

\* the loop of enhance_search_results did not fetch the URL of a result
NoFetch == "<no fetch>"

\* outcomes of a URL fetch: the text of the page, or NoneStr for a failure
Pages == {NoneStr, "LOGIN  Cloudy.\n"}

\* outcomes of the fallback request: the decoded answer, or NoneDict for a failure
FallbackData ==
    {NoneDict,
     EmptyDict,
     [AbstractText |-> "AI is a field.",
      RelatedTopics |-> <<[Text |-> "a"], [Text |-> "b"], EmptyDict, [Text |-> "d"]>>]}

-----------------------------------------------------------------------------
(* The calls of search_web *)

\* A call of search_web: its position (pc), its arguments, its locals (log:
\* the line printed; params: the arguments sent to Tavily; response; enhanced;
\* i: the index of the loop of enhance_search_results; stored_at: the time
\* stamp set_cached_result wrote; raised: where the exception that the except
\* clause caught came from), the value it returned (result), the number of
\* Tavily calls, URL fetches and fallback requests it has made, the outcome
\* of the URL fetch of each result the loop has handled (pages), and the calls
\* that were in flight and had not stored when it began (overlaps), and
\* whether its cache lookup deleted a stale entry (evicted).
IdleReq ==
    [pc |-> "Idle", query |-> "", phone_number |-> "", config |-> SearchConfig,
     log |-> <<>>, params |-> EmptyDict, response |-> EmptyDict, i |-> 0,
     enhanced |-> EmptyDict, stored_at |-> -1, raised |-> "", result |-> NoneDict,
     nprimary |-> 0, nfetch |-> 0, nfallback |-> 0, pages |-> <<>>,
     overlaps |-> {}, evicted |-> FALSE]

\* the response of search_web to an empty query
EmptyQueryError == [status |-> "error", message |-> "Please provide a search query."]

\* truth value of the Optional[Dict] that get_cached_result returns
TruthyDict(d) == d /= NoneDict /\ d /= EmptyDict

Init ==
    /\ cache_store = EmptyDict
    /\ now = 0
    /\ tavily_client \in BOOLEAN
    /\ nlp \in BOOLEAN
    /\ req = [r \in Callers |-> IdleReq]
    /\ running = 0
    /\ probe = <<>>

\* search_web, from the call to its first suspension: the empty-query check,
\* the log line, the cache lookup, and then either the return of the cached
\* response, the start of the (blocking) fallback request, or the hand-over of
\* the Tavily call to a worker thread
Start(r, query, config) ==
    /\ running = 0
    /\ req[r].pc = "Idle"
    /\ \A c \in Callers : c < r => req[c].pc /= "Idle"
    /\ LET call == [IdleReq EXCEPT !.query = query, !.config = config,
                                   !.phone_number = "1234567890",
                                   !.overlaps = {c \in Callers :
                                                    /\ req[c].pc \notin {"Idle", "Done"}
                                                    /\ req[c].stored_at < 0}]
           cached == get_cached_result(cache_store, query, config, now)
           logged == [call EXCEPT !.log = <<call.phone_number, Prefix(query, 50)>>,
                                  !.evicted = get_cached_result_store(cache_store, query,
                                                  config, now) /= cache_store]
       IN  IF Strip(query) = ""
           THEN /\ req' = [req EXCEPT ![r] = [call EXCEPT !.pc = "Done",
                                                          !.result = EmptyQueryError]]
                /\ UNCHANGED <<cache_store, running>>
           ELSE /\ cache_store' = get_cached_result_store(cache_store, query, config, now)
                /\ IF TruthyDict(cached)
                   THEN /\ req' = [req EXCEPT ![r] =
                                [logged EXCEPT !.pc = "Done",
                                               !.result = DictWith(cached, "source", "cache")]]
                        /\ UNCHANGED running
                   ELSE IF ~tavily_client
                   THEN /\ req' = [req EXCEPT ![r] =
                                [logged EXCEPT !.pc = "FallbackDispatch", !.nfallback = 1]]
                        /\ running' = r
                   ELSE /\ req' = [req EXCEPT ![r] =
                                [logged EXCEPT !.pc = "ProviderDispatch", !.nprimary = 1,
                                               !.params = Dispatch(Params(query, config), config)]]
                        /\ UNCHANGED running
    /\ UNCHANGED <<now, tavily_client, nlp, probe>>

\* the Tavily call returns a payload: the coroutine resumes and
\* enhance_search_results builds its dict
ProviderReturn(r, response) ==
    /\ running = 0
    /\ req[r].pc = "ProviderDispatch"
    /\ response \in ResponsesFor(req[r].params)
    /\ req' = [req EXCEPT ![r] =
            [@ EXCEPT !.pc = "Enhance", !.response = response, !.i = 1,
                      !.enhanced = EnhancedInit(response, req[r].config, now)]]
    /\ running' = r
    /\ UNCHANGED <<cache_store, now, tavily_client, nlp, probe>>

\* a variant of ProviderError that returns an error response without a
\* fallback request
ProviderError_NoFallback(r) ==
    /\ running = 0
    /\ req[r].pc = "ProviderDispatch"
    /\ req' = [req EXCEPT ![r] =
            [@ EXCEPT !.pc = "Done", !.raised = "provider",
                      !.result = [status |-> "error",
                                  message |-> "Search temporarily unavailable",
                                  error |-> "request failed"]]]
    /\ UNCHANGED <<cache_store, now, tavily_client, nlp, running, probe>>

\* the Tavily call raises (network, auth, quota): search_web catches it and
\* starts the fallback request
ProviderError(r) ==
    /\ running = 0
    /\ req[r].pc = "ProviderDispatch"
    /\ req' = [req EXCEPT ![r] = [@ EXCEPT !.pc = "FallbackDispatch",
                                           !.raised = "provider",
                                           !.nfallback = @ + 1]]
    /\ running' = r
    /\ UNCHANGED <<cache_store, now, tavily_client, nlp, probe>>

\* one turn of the loop of enhance_search_results, with the (blocking) fetch
\* of the URL when the snippet is short
EnhanceResult(r, page) ==
    /\ running = r
    /\ req[r].pc = "Enhance"
    /\ req[r].i <= Len(Get(req[r].response, "results", <<>>))
    /\ LET raw == req[r].response.results[req[r].i] IN
       /\ page \in (IF NeedsFetch(raw) THEN Pages ELSE {NoneStr})
       /\ req' = [req EXCEPT ![r] =
               [@ EXCEPT !.i = @ + 1,
                         !.nfetch = IF NeedsFetch(raw) THEN @ + 1 ELSE @,
                         !.pages = Append(@, IF NeedsFetch(raw) THEN page ELSE NoFetch),
                         !.enhanced = [@ EXCEPT !.insights =
                                           AddInsight(@, Insight(raw, page, nlp))]]]
    /\ UNCHANGED <<cache_store, now, tavily_client, nlp, running, probe>>

\* a variant of Assemble in which the exception of the projection is not
\* caught and leaves search_web
Assemble_Uncaught(r) ==
    /\ running = r
    /\ req[r].pc = "Enhance"
    /\ req[r].i > Len(Get(req[r].response, "results", <<>>))
    /\ IF FormatRaises(req[r].response, req[r].config)
       THEN /\ req' = [req EXCEPT ![r] = [@ EXCEPT !.pc = "Raised", !.raised = "enhance"]]
            /\ running' = 0
       ELSE /\ req' = [req EXCEPT ![r] =
                    [@ EXCEPT !.pc = "CacheStore",
                              !.enhanced = EnhancedFinal(@, req[r].response, req[r].config)]]
            /\ UNCHANGED running
    /\ UNCHANGED <<cache_store, now, tavily_client, nlp, probe>>

\* the end of enhance_search_results: the projection by type and the direct
\* answer; an exception of the projection is caught by search_web, which
\* starts the fallback request
Assemble(r) ==
    /\ running = r
    /\ req[r].pc = "Enhance"
    /\ req[r].i > Len(Get(req[r].response, "results", <<>>))
    /\ IF FormatRaises(req[r].response, req[r].config)
       THEN req' = [req EXCEPT ![r] = [@ EXCEPT !.pc = "FallbackDispatch",
                                                !.raised = "enhance",
                                                !.nfallback = @ + 1]]
       ELSE req' = [req EXCEPT ![r] =
               [@ EXCEPT !.pc = "CacheStore",
                         !.enhanced = EnhancedFinal(@, req[r].response, req[r].config)]]
    /\ UNCHANGED <<cache_store, now, tavily_client, nlp, running, probe>>

\* set_cached_result(query, config, enhanced)
CacheStore(r) ==
    /\ running = r
    /\ req[r].pc = "CacheStore"
    /\ cache_store' = set_cached_result(cache_store, req[r].query, req[r].config,
                                        req[r].enhanced, now)
    /\ req' = [req EXCEPT ![r] = [@ EXCEPT !.pc = "Return", !.stored_at = now,
                                           !.result = req[r].enhanced]]
    /\ UNCHANGED <<now, tavily_client, nlp, running, probe>>

\* return enhanced
Return(r) ==
    /\ running = r
    /\ req[r].pc = "Return"
    /\ req' = [req EXCEPT ![r] = [@ EXCEPT !.pc = "Done"]]
    /\ running' = 0
    /\ UNCHANGED <<cache_store, now, tavily_client, nlp, probe>>

\* a variant of FallbackReturn that sends the request again when it failed
FallbackReturn_Retry(r, data) ==
    /\ running = r
    /\ req[r].pc = "FallbackDispatch"
    /\ IF data = NoneDict
       THEN /\ req' = [req EXCEPT ![r] = [@ EXCEPT !.nfallback = @ + 1]]
            /\ UNCHANGED running
       ELSE /\ req' = [req EXCEPT ![r] =
                    [@ EXCEPT !.pc = "Done",
                              !.result = perform_fallback_search(req[r].query, data)]]
            /\ running' = 0
    /\ UNCHANGED <<cache_store, now, tavily_client, nlp, probe>>

\* a variant of FallbackReturn in which a failed request is never over: the
\* call keeps waiting for the answer
FallbackReturn_Hang(r, data) ==
    /\ running = r
    /\ req[r].pc = "FallbackDispatch"
    /\ IF data = NoneDict
       THEN /\ req' = [req EXCEPT ![r] = [@ EXCEPT !.pc = "FallbackWait"]]
            /\ UNCHANGED running
       ELSE /\ req' = [req EXCEPT ![r] =
                    [@ EXCEPT !.pc = "Done",
                              !.result = perform_fallback_search(req[r].query, data)]]
            /\ running' = 0
    /\ UNCHANGED <<cache_store, now, tavily_client, nlp, probe>>

\* a variant of FallbackReturn that stores the fallback's result in the cache
FallbackReturn_Cached(r, data) ==
    /\ running = r
    /\ req[r].pc = "FallbackDispatch"
    /\ req' = [req EXCEPT ![r] =
            [@ EXCEPT !.pc = "Done", !.result = perform_fallback_search(req[r].query, data)]]
    /\ cache_store' = set_cached_result(cache_store, req[r].query, req[r].config,
                                        perform_fallback_search(req[r].query, data), now)
    /\ running' = 0
    /\ UNCHANGED <<now, tavily_client, nlp, probe>>

\* the fallback request ends and search_web returns its result
FallbackReturn(r, data) ==
    /\ running = r
    /\ req[r].pc = "FallbackDispatch"
    /\ req' = [req EXCEPT ![r] =
            [@ EXCEPT !.pc = "Done", !.result = perform_fallback_search(req[r].query, data)]]
    /\ running' = 0
    /\ UNCHANGED <<cache_store, now, tavily_client, nlp, probe>>

\* clear_cache(): DELETE /cache/clear
ClearCache ==
    /\ running = 0
    /\ cache_store' = EmptyDict
    /\ UNCHANGED <<now, tavily_client, nlp, req, running, probe>>

\* a variant of Tick with a background sweep: as time passes, the entries
\* that are CACHE_TTL old are deleted
Tick_Sweep(t) ==
    /\ running = 0
    /\ t > now
    /\ now' = t
    /\ cache_store' = [k \in {x \in DOMAIN cache_store :
                                  t - cache_store[x][2] < CACHE_TTL} |-> cache_store[k]]
    /\ UNCHANGED <<tavily_client, nlp, req, running, probe>>

\* time passes, by far more than a request blocks the event loop
Tick(t) ==
    /\ running = 0
    /\ t > now
    /\ now' = t
    /\ UNCHANGED <<cache_store, tavily_client, nlp, req, running, probe>>

Next ==
    \/ \E r \in Callers, query \in Queries, config \in Configs : Start(r, query, config)
    \/ \E r \in Callers, response \in Responses : ProviderReturn(r, response)
    \/ \E r \in Callers : ProviderError(r)
    \/ \E r \in Callers, page \in Pages : EnhanceResult(r, page)
    \/ \E r \in Callers : Assemble(r)
    \/ \E r \in Callers : CacheStore(r)
    \/ \E r \in Callers : Return(r)
    \/ \E r \in Callers, data \in FallbackData : FallbackReturn(r, data)
    \/ ClearCache
    \/ \E t \in Instants : Tick(t)

Spec == Init /\ [][Next]_vars

\* the inputs of the runs checked for termination: a blank and a plain
\* query, the default and a news configuration, and every payload
LiveQueries == {"", "ai"}
LiveConfigs ==
    {SearchConfig,
     [SearchConfig EXCEPT !.search_type = "news", !.search_depth = "basic",
                          !.time_frame = "week"]}

\* the next step of call r once it has begun: the end of a network call
\* (an answer, or the exception its timeout raises) or the code that runs
\* until the next one
Step(r) ==
    \/ \E response \in Responses : ProviderReturn(r, response)
    \/ ProviderError(r)
    \/ \E page \in Pages : EnhanceResult(r, page)
    \/ Assemble(r)
    \/ CacheStore(r)
    \/ Return(r)
    \/ \E data \in FallbackData : FallbackReturn(r, data)

LiveNext ==
    \/ \E r \in Callers, query \in LiveQueries, config \in LiveConfigs : Start(r, query, config)
    \/ \E r \in Callers : Step(r)
    \/ ClearCache
    \/ Tick(CACHE_TTL)


-----------------------------------------------------------------------------
(* The cache functions called directly, as test_cache_expiry does *)

\* the instants of the direct calls: ages on both sides of each TTL
CacheInstants == {0, 299, 300, 599, 600}

CacheQueries == {"ai"}

CacheConfigs ==
    {SearchConfig,
     [SearchConfig EXCEPT !.max_results = 1],
     [SearchConfig EXCEPT !.search_type = "news"]}

\* the dicts stored
CacheData == {[test |-> "data"], EmptyDict}

NoCall == [op |-> "none"]

\* a call record without the record of the call before it
Last(p) == IF p = <<>> THEN NoCall ELSE [k \in (DOMAIN p) \ {"prev"} |-> p[k]]

CacheInit ==
    /\ cache_store = EmptyDict
    /\ now = 0
    /\ tavily_client = FALSE
    /\ nlp = FALSE
    /\ req = [r \in Callers |-> IdleReq]
    /\ running = 0
    /\ probe = <<>>

\* set_cached_result(query, config, data)
CallSet(query, config, data) ==
    /\ cache_store' = set_cached_result(cache_store, query, config, data, now)
    /\ probe' = [op |-> "set", query |-> query, config |-> config, data |-> data,
                 at |-> now, prev |-> Last(probe)]
    /\ UNCHANGED <<now, tavily_client, nlp, req, running>>

\* get_cached_result(query, config); the record keeps the entry the call found
CallGet(query, config) ==
    LET key == get_cache_key(query, config) IN
    /\ cache_store' = get_cached_result_store(cache_store, query, config, now)
    /\ probe' = [op |-> "get", query |-> query, config |-> config,
                 ret |-> get_cached_result(cache_store, query, config, now),
                 at |-> now,
                 found |-> IF key \in DOMAIN cache_store THEN <<cache_store[key]>> ELSE <<>>,
                 prev |-> Last(probe)]
    /\ UNCHANGED <<now, tavily_client, nlp, req, running>>

\* time passes between two direct calls
CacheTick(t) ==
    /\ t > now
    /\ now' = t
    /\ UNCHANGED <<cache_store, tavily_client, nlp, req, running, probe>>

CacheNext ==
    \/ \E query \in CacheQueries, config \in CacheConfigs, data \in CacheData :
          CallSet(query, config, data)
    \/ \E query \in CacheQueries, config \in CacheConfigs : CallGet(query, config)
    \/ \E t \in CacheInstants : CacheTick(t)

CacheSpec == CacheInit /\ [][CacheNext]_vars

-----------------------------------------------------------------------------
(* get_cache_key called directly *)

\* queries that differ in case and in whitespace only
KeyQueries == {"ai", "AI", "ai ", " ai"}

\* the default configuration, every change of one field, and some of several
KeyConfigs ==
    {SearchConfig,
     [SearchConfig EXCEPT !.search_depth = "basic"],
     [SearchConfig EXCEPT !.search_type = "news"],
     [SearchConfig EXCEPT !.search_type = "image"],
     [SearchConfig EXCEPT !.time_frame = "week"],
     [SearchConfig EXCEPT !.max_results = 1],
     [SearchConfig EXCEPT !.include_images = TRUE],
     [SearchConfig EXCEPT !.include_domains = <<"wikipedia.org">>],
     [SearchConfig EXCEPT !.exclude_domains = <<"example.com">>],
     [SearchConfig EXCEPT !.language = "fr"],
     [SearchConfig EXCEPT !.search_type = "news", !.search_depth = "basic"],
     [SearchConfig EXCEPT !.search_type = "news", !.time_frame = "week",
                          !.max_results = 3],
     [SearchConfig EXCEPT !.search_type = "image", !.include_images = TRUE,
                          !.max_results = 3, !.language = "fr"]}

\* get_cache_key(query, config)
CallKey(query, config) ==
    /\ probe' = [op |-> "key", query |-> query, config |-> config,
                 key |-> get_cache_key(query, config), prev |-> Last(probe)]
    /\ UNCHANGED <<cache_store, now, tavily_client, nlp, req, running>>

KeyNext == \E query \in KeyQueries, config \in KeyConfigs : CallKey(query, config)

KeySpec == CacheInit /\ [][KeyNext]_vars

-----------------------------------------------------------------------------
(* clean_text called directly, as test_clean_text does *)

\* the number of pieces a text is made of
MaxPieces == 3

\* the pieces of the texts: boilerplate words, parts of them, whitespace and
\* other text
Pieces == {"LO", "GIN", "LOGIN", "Image 1", ":", " ", "\n", "a"}

CleanInit ==
    /\ cache_store = EmptyDict
    /\ now = 0
    /\ tavily_client = FALSE
    /\ nlp = FALSE
    /\ req = [r \in Callers |-> IdleReq]
    /\ running = 0
    /\ probe = [op |-> "clean", text |-> "", pieces |-> 0, once |-> clean_text(""),
                twice |-> clean_text(clean_text(""))]

\* clean_text(text) of a text one piece longer, and clean_text of its result
CallClean(piece) ==
    /\ probe.pieces < MaxPieces
    /\ LET text == probe.text \o piece IN
       probe' = [op |-> "clean", text |-> text, pieces |-> probe.pieces + 1,
                 once |-> clean_text(text), twice |-> clean_text(clean_text(text))]
    /\ UNCHANGED <<cache_store, now, tavily_client, nlp, req, running>>

CleanNext == \E piece \in Pieces : CallClean(piece)

CleanSpec == CleanInit /\ [][CleanNext]_vars

-----------------------------------------------------------------------------
(* The dispatch by search type and the projection that goes with it *)

\* every search type, one of them unknown to the service, with every depth,
\* image flag and two time frames
DispatchConfigs ==
    {[SearchConfig EXCEPT !.search_type = t, !.search_depth = d,
                          !.include_images = b, !.time_frame = f] :
        t \in {"general", "news", "image", "invalid_type"},
        d \in {"basic", "advanced"}, b \in BOOLEAN, f \in {"auto", "week"}}

\* search_web from the building of params to the end of
\* enhance_search_results, for a payload the provider returns: the arguments
\* sent to tavily_client.search and the formatted results
CallDispatch(query, config, response) ==
    /\ probe' = [op |-> "dispatch", query |-> query, config |-> config,
                 response |-> response,
                 sent |-> Dispatch(Params(query, config), config),
                 raises |-> FormatRaises(response, config),
                 formatted |-> IF FormatRaises(response, config) THEN <<>>
                               ELSE FormattedResults(response, config)]
    /\ UNCHANGED <<cache_store, now, tavily_client, nlp, req, running>>

DispatchNext ==
    \E query \in {"ai"}, config \in DispatchConfigs, response \in Responses :
        CallDispatch(query, config, response)

DispatchSpec == CacheInit /\ [][DispatchNext]_vars

-----------------------------------------------------------------------------
(* The HTTP endpoints *)

\* result.get("source", "tavily"), the source field of the four search endpoints
EndpointSource(result) == Get(result, "source", "tavily")

\* POST /search: the response for the result of search_web
api_search(result) ==
    [status |-> "success", data |-> result, source |-> EndpointSource(result)]

\* GET /search/simple: the response for the result of search_web
simple_search(query, result) ==
    LET formatted == Get(result, "formatted_results", <<>>) IN
    [query |-> query,
     answer |-> Get(result, "direct_answer", ""),
     results |-> SubSeq(formatted, 1, Min(5, Len(formatted))),
     source |-> EndpointSource(result)]

-----------------------------------------------------------------------------
(* The query text sent to the two backends *)

\* queries of 1 to 500 characters, around the limit of 400, that end in
\* characters the URL of the fallback escapes
LongQueries ==
    {Rep(n, "a") \o tail : n \in {1, 49, 50, 398, 399, 400, 401, 498},
                           tail \in {"", "b", " c", "&d"}}

\* search_web for a query that is not blank, up to the request to a backend:
\* the query argument sent to tavily_client.search and the URL requested
\* from the fallback
CallTransmit(query, config) ==
    /\ Strip(query) /= ""
    /\ probe' = [op |-> "transmit", query |-> query, config |-> config,
                 sent |-> Dispatch(Params(query, config), config).query,
                 url |-> FallbackUrl(query)]
    /\ UNCHANGED <<cache_store, now, tavily_client, nlp, req, running>>

TransmitNext == \E query \in LongQueries, config \in Configs : CallTransmit(query, config)

TransmitSpec == CacheInit /\ [][TransmitNext]_vars

-----------------------------------------------------------------------------
(* Properties of search_web *)

\* the query has no character other than whitespace
Blank(query) == \A i \in 1..Len(query) : Char(query, i) \in {" ", "\t", "\n", "\r", "\f"}

Started(r) == req[r].pc /= "Idle"

NoBackendCall(r) == req[r].nprimary = 0 /\ req[r].nfetch = 0 /\ req[r].nfallback = 0

\* the call was answered by the primary provider: search_web stored and
\* returns the enhanced response
PrimaryAnswered(r) ==
    /\ req[r].pc \in {"Return", "Done"}
    /\ req[r].enhanced /= EmptyDict
    /\ req[r].result = req[r].enhanced

\* the time to live the specification states for a search type
StatedTtl(config) == IF config.search_type = "news" THEN 300 ELSE 600

\* C1: a call with an empty or whitespace-only query is over at once with an
\* error response (status = error), has made no Tavily call, no URL fetch and
\* no fallback request, and the step that takes the call leaves the cache as
\* it was.
C1_EmptyQueryRejected ==
    /\ [](\A r \in Callers :
            Started(r) /\ Blank(req[r].query) =>
                /\ req[r].pc = "Done"
                /\ "status" \in DOMAIN req[r].result
                /\ req[r].result.status = "error"
                /\ NoBackendCall(r))
    /\ [][\A r \in Callers :
            ~Started(r) /\ Started(r)' /\ Blank(req'[r].query) =>
                cache_store' = cache_store]_vars

\* a whitespace-only query was rejected while the cache held an entry
C1_Witness ==
    \E r \in Callers :
        /\ req[r].pc = "Done"
        /\ req[r].query = " \t "
        /\ req[r].result = EmptyQueryError
        /\ DOMAIN cache_store /= {}

\* C2: when a call was answered by the primary provider and a second call
\* with the same query and configuration is issued while the entry the first
\* one stored is in the cache and younger than its TTL, the second call is
\* over at once, its response is the first response with source = cache added,
\* and it makes no Tavily call, no URL fetch, no fallback request and no
\* change to the cache.
C2_SecondCallServedFromCache ==
    [][\A a, b \in Callers :
        LET key == get_cache_key(req[a].query, req[a].config) IN
        (/\ req[a].pc = "Done" /\ PrimaryAnswered(a)
         /\ ~Started(b) /\ Started(b)'
         /\ req'[b].query = req[a].query /\ req'[b].config = req[a].config
         /\ key \in DOMAIN cache_store
         /\ cache_store[key] = <<req[a].result, req[a].stored_at>>
         /\ now - req[a].stored_at < StatedTtl(req[a].config))
        => /\ req'[b].pc = "Done"
           /\ DOMAIN req'[b].result = (DOMAIN req[a].result) \cup {"source"}
           /\ req'[b].result.source = "cache"
           /\ \A k \in DOMAIN req[a].result : req'[b].result[k] = req[a].result[k]
           /\ NoBackendCall(b)'
           /\ req'[b].enhanced = EmptyDict
           /\ cache_store' = cache_store]_vars

\* the second call was served from the cache with the first call's response,
\* some time after the first one stored it
C2_Witness ==
    \E a, b \in Callers :
        /\ a /= b
        /\ req[a].pc = "Done" /\ PrimaryAnswered(a)
        /\ req[b].pc = "Done"
        /\ req[b].query = req[a].query /\ req[b].config = req[a].config
        /\ req[b].result = DictWith(req[a].result, "source", "cache")
        /\ Len(req[a].result.insights) = 2
        /\ now > req[a].stored_at

\* C3: without a Tavily client, a call with a non-empty query is answered by
\* the fallback provider alone: it makes one fallback request, no Tavily call
\* and no URL fetch, its response has source = duckduckgo or status = error,
\* and nothing is ever written to the cache.
C3_UnconfiguredUsesFallbackOnly ==
    ~tavily_client =>
        /\ cache_store = EmptyDict
        /\ \A r \in Callers :
            Started(r) /\ ~Blank(req[r].query) =>
                /\ req[r].pc \in {"FallbackDispatch", "Done"}
                /\ req[r].nprimary = 0 /\ req[r].nfetch = 0 /\ req[r].nfallback = 1
                /\ req[r].pc = "Done" =>
                      \/ Get(req[r].result, "source", "") = "duckduckgo"
                      \/ Get(req[r].result, "status", "") = "error"

\* without a client, one call got the fallback's answer and one its error
C3_Witness ==
    /\ ~tavily_client
    /\ \E a, b \in Callers :
        /\ req[a].pc = "Done" /\ Get(req[a].result, "source", "") = "duckduckgo"
        /\ req[b].pc = "Done" /\ ~Blank(req[b].query)
        /\ Get(req[b].result, "status", "") = "error"

\* the shape of what perform_fallback_search returns
FallbackShaped(result) ==
    \/ /\ DOMAIN result = {"status", "source", "answer", "related_topics"}
       /\ result.status = "fallback"
    \/ /\ DOMAIN result = {"status", "message", "error"}
       /\ result.status = "error"

\* C4: when the Tavily call of a cache miss fails, search_web makes one
\* fallback request and returns its result as it is: no URL is fetched, no
\* enhanced response is built, and neither the step that starts the fallback
\* request nor the step that returns changes the cache.
C4_ProviderFailureFallsBack ==
    /\ [](\A r \in Callers :
            req[r].raised = "provider" =>
                /\ req[r].pc \in {"FallbackDispatch", "Done"}
                /\ req[r].nprimary = 1 /\ req[r].nfallback = 1 /\ req[r].nfetch = 0
                /\ req[r].enhanced = EmptyDict
                /\ req[r].pc = "Done" => FallbackShaped(req[r].result))
    /\ [][\A r \in Callers :
            req'[r].raised = "provider" /\ req'[r] /= req[r] =>
                cache_store' = cache_store]_vars

\* a call whose Tavily call failed returned the fallback's answer while the
\* cache held another call's entry
C4_Witness ==
    \E r \in Callers :
        /\ req[r].raised = "provider"
        /\ req[r].pc = "Done"
        /\ req[r].result.status = "fallback"
        /\ DOMAIN cache_store /= {}

\* the call of caller c can take its next step: it awaits the Tavily call and
\* the event loop is free, or it occupies the event loop
CanStep(c) ==
    \/ running = 0 /\ req[c].pc = "ProviderDispatch"
    \/ running = c /\ req[c].pc \in {"Enhance", "CacheStore", "Return", "FallbackDispatch"}

\* C5: search_web never raises: a call is never left at an exception, a call
\* that has not returned can always go on (some call that holds or awaits the
\* event loop has a step), a call that is over has returned a response, and
\* every exception of the Tavily call or of the enhancement has led to a
\* fallback request.
C5_NeverRaises ==
    \A r \in Callers :
        /\ req[r].pc \in {"Idle", "ProviderDispatch", "Enhance", "CacheStore",
                          "Return", "FallbackDispatch", "Done"}
        /\ (Started(r) /\ req[r].pc /= "Done") => \E c \in Callers : CanStep(c)
        /\ req[r].pc = "Done" =>
              /\ req[r].result /= NoneDict
              /\ \/ FallbackShaped(req[r].result)
                 \/ req[r].result = EmptyQueryError
                 \/ "insights" \in DOMAIN req[r].result
        /\ req[r].raised /= "" =>
              /\ req[r].nfallback = 1
              /\ req[r].pc \in {"FallbackDispatch", "Done"}
              /\ req[r].pc = "Done" => FallbackShaped(req[r].result)

\* a call whose projection raised after two results were enhanced returned
\* the fallback's error response
C5_Witness ==
    \E r \in Callers :
        /\ req[r].raised = "enhance"
        /\ req[r].nfetch = 1
        /\ req[r].pc = "Done"
        /\ req[r].result.status = "error"

\* C6: when search_web is about to return the enhanced response of a
\* successful Tavily call, the cache maps the key of (query, config) to
\* exactly that response, stamped with the time of the store.
C6_StoredBeforeReturn ==
    \A r \in Callers :
        req[r].pc = "Return" =>
            LET key == get_cache_key(req[r].query, req[r].config) IN
            /\ req[r].result = req[r].enhanced
            /\ "insights" \in DOMAIN req[r].result
            /\ key \in DOMAIN cache_store
            /\ cache_store[key] = <<req[r].result, req[r].stored_at>>

\* a call is about to return while the cache also holds the entry of another
\* key
C6_Witness ==
    \E r \in Callers :
        /\ req[r].pc = "Return"
        /\ req[r].config.search_type = "image"
        /\ Cardinality(DOMAIN cache_store) = 2

\* C7: a direct set_cached_result(q, c, r) followed at once by
\* get_cached_result(q, c), less than the TTL later, returns r.
C7_CacheRoundTrip ==
    (/\ probe /= <<>>
     /\ probe.op = "get" /\ probe.prev.op = "set"
     /\ probe.query = probe.prev.query /\ probe.config = probe.prev.config
     /\ probe.at - probe.prev.at < StatedTtl(probe.config))
    => probe.ret = probe.prev.data

\* a dict stored over another one was read back 299 seconds later
C7_Witness ==
    /\ probe /= <<>>
    /\ probe.op = "get" /\ probe.prev.op = "set"
    /\ probe.query = probe.prev.query /\ probe.config = probe.prev.config
    /\ probe.config.search_type = "news"
    /\ probe.at - probe.prev.at = 299
    /\ probe.found /= <<>>
    /\ probe.ret = [test |-> "data"]
    /\ probe.prev.data = [test |-> "data"]

\* C8: a lookup that finds an entry for its key returns the stored response
\* and keeps the entry if the entry's age is below the TTL (300 s for news,
\* 600 s otherwise); at an age of the TTL or more it returns None and the
\* entry is gone. A lookup that finds no entry returns None.
C8_CacheExpiry ==
    (probe /= <<>> /\ probe.op = "get") =>
        LET key == get_cache_key(probe.query, probe.config) IN
        IF probe.found = <<>>
        THEN probe.ret = NoneDict /\ key \notin DOMAIN cache_store
        ELSE LET data == probe.found[1][1]
                 age == probe.at - probe.found[1][2]
             IN  IF age < StatedTtl(probe.config)
                 THEN /\ probe.ret = data
                      /\ key \in DOMAIN cache_store
                      /\ cache_store[key] = probe.found[1]
                 ELSE /\ probe.ret = NoneDict
                      /\ key \notin DOMAIN cache_store

\* a news entry of age exactly 300 was refused and removed
C8_Witness ==
    /\ probe /= <<>> /\ probe.op = "get"
    /\ probe.config.search_type = "news"
    /\ probe.found /= <<>>
    /\ probe.at - probe.found[1][2] = 300
    /\ probe.ret = NoneDict

\* a general entry of age 599 was returned
C8_WitnessFresh ==
    /\ probe /= <<>> /\ probe.op = "get"
    /\ probe.config.search_type = "general"
    /\ probe.found /= <<>>
    /\ probe.at - probe.found[1][2] = 599
    /\ probe.ret = [test |-> "data"]

\* C9: for one query, two configurations have the same cache key iff they
\* agree on search type, search depth and time frame, whatever their
\* max_results, domain filters, language and include_images; and two queries
\* that differ, be it only in case or whitespace, never have the same key.
C9_Fingerprint ==
    (probe /= <<>> /\ probe.op = "key" /\ probe.prev.op = "key") =>
        LET c1 == probe.config
            c2 == probe.prev.config
        IN  /\ probe.query = probe.prev.query =>
                  (probe.key = probe.prev.key <=>
                      /\ c1.search_type = c2.search_type
                      /\ c1.search_depth = c2.search_depth
                      /\ c1.time_frame = c2.time_frame)
            /\ probe.query /= probe.prev.query => probe.key /= probe.prev.key

\* two configurations that differ in max_results, language and include_images
\* got the same key
C9_Witness ==
    /\ probe /= <<>> /\ probe.op = "key" /\ probe.prev.op = "key"
    /\ probe.query = probe.prev.query
    /\ probe.key = probe.prev.key
    /\ probe.config.max_results /= probe.prev.config.max_results
    /\ probe.config.language /= probe.prev.config.language
    /\ probe.config.include_images /= probe.prev.config.include_images

\* C10: once the loop of enhance_search_results is over, the response has
\* one insight per raw result, the i-th insight has the title and the URL of
\* the i-th raw result, and metadata.result_count is the number of raw results.
C10_OrderPreserved ==
    \A r \in Callers :
        (req[r].pc \in {"CacheStore", "Return", "Done"} /\ req[r].enhanced /= EmptyDict
         /\ req[r].raised = "") =>
            LET results == req[r].response.results
                insights == req[r].enhanced.insights
            IN  /\ Len(insights) = Len(results)
                /\ \A i \in 1..Len(results) :
                      /\ insights[i].title = Get(results[i], "title", "No title")
                      /\ insights[i].url = Get(results[i], "url", NoneStr)
                /\ req[r].enhanced.metadata.result_count = Len(results)
                /\ req[r].pc /= "CacheStore" => req[r].result = req[r].enhanced

\* a call returned two insights, the first one made after a failed fetch
C10_Witness ==
    \E r \in Callers :
        /\ req[r].pc = "Done"
        /\ req[r].raised = ""
        /\ "insights" \in DOMAIN req[r].result
        /\ Len(req[r].result.insights) = 2
        /\ req[r].result.insights[1].title = "Rain"
        /\ req[r].result.insights[2].title = "Long"
        /\ req[r].nfetch = 1
        /\ req[r].result.insights[1].summary = "Rain today. Sun later."

\* the enhancement of call r is complete: enhance_search_results has returned
Enhanced(r) ==
    /\ req[r].pc \in {"CacheStore", "Return", "Done"}
    /\ req[r].enhanced /= EmptyDict
    /\ req[r].raised = ""

\* the raw result has an image URL
HasImage(raw) == "image_url" \in DOMAIN raw /\ raw.image_url /= ""

\* C11: once the enhancement is complete, an image-type response has one
\* formatted result for each raw result that has an image URL, in the order
\* of the raw results and with the title, image URL and page URL of each, and
\* none for the others, while it has an insight for every raw result; a
\* response of another type has one formatted result per raw result, with
\* the title and URL of each.
C11_ImageProjection ==
    \A r \in Callers :
        Enhanced(r) =>
            LET results == req[r].response.results
                formatted == req[r].enhanced.formatted_results
                withImage == SelectSeq(results, HasImage)
            IN  /\ Len(req[r].enhanced.insights) = Len(results)
                /\ IF req[r].config.search_type = "image"
                   THEN /\ Len(formatted) = Len(withImage)
                        /\ \A i \in 1..Len(withImage) :
                              /\ formatted[i].image_url = withImage[i].image_url
                              /\ formatted[i].title = Get(withImage[i], "title", "No title")
                              /\ formatted[i].source_url = Get(withImage[i], "url", "")
                   ELSE /\ Len(formatted) = Len(results)
                        /\ \A i \in 1..Len(results) :
                              /\ formatted[i].url = Get(results[i], "url", "")
                              /\ IF req[r].config.search_type = "news"
                                 THEN formatted[i].headline = Get(results[i], "title", "No headline")
                                 ELSE formatted[i].title = Get(results[i], "title", "No title")

\* an image-type call returned three insights and the two formatted results of
\* the first and the third raw result, the second one having no image URL
C11_Witness ==
    \E r \in Callers :
        /\ req[r].pc = "Done"
        /\ Enhanced(r)
        /\ req[r].config.search_type = "image"
        /\ Len(req[r].response.results) = 3
        /\ ~HasImage(req[r].response.results[2])
        /\ Len(req[r].result.insights) = 3
        /\ Len(req[r].result.formatted_results) = 2
        /\ req[r].result.formatted_results[1].title = "Pic"
        /\ req[r].result.formatted_results[2].title = "Long"

\* the URL fetch of the i-th raw result of call r failed
FetchFailed(r, i) == i <= Len(req[r].pages) /\ req[r].pages[i] = NoneStr

\* C12: a failed URL fetch is not propagated: the loop goes on and makes one
\* insight per result handled, the insight of a result whose fetch failed has
\* the summary and keywords of the cleaned raw snippet alone, the only
\* exception of the enhancement is that of the projection, and a call with a
\* failed fetch whose projection does not raise stores the enhanced response
\* in the cache and returns it.
C12_FailSoftFetch ==
    \A r \in Callers :
        LET results == Get(req[r].response, "results", <<>>) IN
        /\ req[r].raised = "enhance" => FormatRaises(req[r].response, req[r].config)
        /\ req[r].pc = "Enhance" =>
              /\ Len(req[r].pages) = req[r].i - 1
              /\ Len(req[r].enhanced.insights) = req[r].i - 1
        /\ Enhanced(r) => Len(req[r].enhanced.insights) = Len(results)
        /\ \A i \in 1..Len(results) :
              FetchFailed(r, i) =>
                 LET snippet == clean_text(Get(results[i], "content", "")) IN
                 /\ i <= Len(req[r].enhanced.insights)
                 /\ req[r].enhanced.insights[i].summary = summarize_text(snippet, 3, nlp)
                 /\ req[r].enhanced.insights[i].keywords = extract_keywords(snippet, 5, nlp)
                 /\ (req[r].pc \in {"Return", "Done"}
                       /\ ~FormatRaises(req[r].response, req[r].config)) =>
                       /\ req[r].raised = ""
                       /\ req[r].nfallback = 0
                       /\ req[r].result = req[r].enhanced
                       /\ req[r].stored_at >= 0
                 /\ req[r].pc = "Return" =>
                       cache_store[get_cache_key(req[r].query, req[r].config)]
                           = <<req[r].enhanced, req[r].stored_at>>

\* a call whose only URL fetch failed is about to return its enhanced
\* response, which is in the cache; its insight is made of the snippet alone
C12_Witness ==
    \E r \in Callers :
        /\ req[r].pc = "Return"
        /\ req[r].pages = <<NoneStr>>
        /\ nlp
        /\ req[r].result.insights[1].summary = "Rain today. Sun later."
        /\ req[r].result.insights[1].keywords = <<"Rain", "today.", "Sun", "later.">>
        /\ get_cache_key(req[r].query, req[r].config) \in DOMAIN cache_store
        /\ cache_store[get_cache_key(req[r].query, req[r].config)][1] = req[r].result

\* C13: the fallback is the last step of a call: a call makes at most one
\* fallback request; the step that ends the request ends the call, with
\* status = error and a message when the request failed and with
\* status = fallback and source = duckduckgo when it succeeded; and once the
\* fallback request is made the call makes no Tavily call, no URL fetch and
\* no second fallback request.
C13_FallbackTerminal ==
    /\ [](\A r \in Callers :
            /\ req[r].nfallback <= 1
            /\ req[r].nfallback = 1 => req[r].pc \in {"FallbackDispatch", "Done"}
            /\ req[r].pc = "FallbackDispatch" => req[r].nfallback = 1
            /\ (req[r].pc = "Done" /\ req[r].nfallback = 1) =>
                  \/ /\ DOMAIN req[r].result = {"status", "message", "error"}
                     /\ req[r].result.status = "error"
                     /\ req[r].result.message = "Search temporarily unavailable"
                  \/ /\ DOMAIN req[r].result =
                            {"status", "source", "answer", "related_topics"}
                     /\ req[r].result.status = "fallback"
                     /\ req[r].result.source = "duckduckgo")
    /\ [][\A r \in Callers :
            /\ (req[r].pc = "FallbackDispatch" /\ req'[r] /= req[r]) =>
                  req'[r].pc = "Done"
            /\ req[r].nfallback = 1 =>
                  /\ req'[r].nfallback = 1
                  /\ req'[r].nprimary = req[r].nprimary
                  /\ req'[r].nfetch = req[r].nfetch]_vars

\* a call whose Tavily call raised and whose fallback request failed too is
\* over with the error response, after one request to each
C13_Witness ==
    \E r \in Callers :
        /\ req[r].pc = "Done"
        /\ req[r].raised = "provider"
        /\ req[r].nprimary = 1
        /\ req[r].nfallback = 1
        /\ req[r].result.status = "error"
        /\ req[r].result.message = "Search temporarily unavailable"

\* C14: clean_text is idempotent: cleaning the result of clean_text again
\* gives the same text.
C14_CleanTextIdempotent ==
    probe.op = "clean" => probe.twice = probe.once

\* call r waits in a network-bound step: the Tavily call, the fetch of the
\* URL of the result the loop is at, or the fallback request
WaitsOnNetwork(r) ==
    \/ req[r].pc = "ProviderDispatch"
    \/ req[r].pc = "FallbackDispatch"
    \/ /\ req[r].pc = "Enhance"
       /\ req[r].i <= Len(Get(req[r].response, "results", <<>>))
       /\ NeedsFetch(req[r].response.results[req[r].i])

\* call c is in flight: it has started and has not returned
InFlight(c) == Started(c) /\ req[c].pc /= "Done"

\* C15: while a call waits in the Tavily call, in a URL fetch or in the
\* fallback request, every other call in flight can take its next step.
C15_SuspensionPoints ==
    \A r \in Callers, c \in Callers :
        (r /= c /\ WaitsOnNetwork(r) /\ InFlight(c)) => CanStep(c)

\* calls r and c have the same cache key
SameKey(r, c) ==
    get_cache_key(req[r].query, req[r].config) = get_cache_key(req[c].query, req[c].config)

\* calls r and c are two calls of the same key, r begun while c was in flight
\* and had not stored, and r missed the cache
Duplicated(r, c) ==
    /\ r /= c
    /\ c \in req[r].overlaps
    /\ SameKey(r, c)
    /\ req[r].nprimary = 1

\* C16: of two calls of the same cache key that are in flight together and
\* both miss the cache, each makes its own Tavily call; when both are answered
\* by the provider each stores and returns the enhancement of its own payload,
\* and at the moment the second of them returns the cache holds, under their
\* key, the response of the call that stored last, which is the one returning.
C16_NoSingleFlight ==
    /\ [](\A r \in Callers, c \in Callers :
            Duplicated(r, c) =>
                /\ req[c].nprimary = 1
                /\ \A x \in {r, c} :
                      (Enhanced(x) /\ req[x].pc = "Done") =>
                          /\ req[x].stored_at >= 0
                          /\ req[x].result = req[x].enhanced
                          /\ req[x].result.original_response = req[x].response)
    /\ [][\A r \in Callers, c \in Callers :
            (/\ Duplicated(r, c)
             /\ \E last \in {r, c} : req[last].pc = "Return" /\ req'[last].pc = "Done"
             /\ \A x \in {r, c} : Enhanced(x)' /\ req'[x].pc = "Done") =>
                LET last == CHOOSE x \in {r, c} : req[x].pc = "Return"
                    key == get_cache_key(req[last].query, req[last].config)
                IN  /\ key \in DOMAIN cache_store'
                    /\ cache_store'[key] = <<req'[last].result, req'[last].stored_at>>]_vars

\* two calls of the same key were in flight together, got different payloads,
\* have both returned, the first answered one last, and the cache holds its
\* response, not that of the other
C16_Witness ==
    /\ Duplicated(2, 1)
    /\ req[1].pc = "Done" /\ req[2].pc = "Done"
    /\ Enhanced(1) /\ Enhanced(2)
    /\ req[1].config /= req[2].config
    /\ req[1].result /= req[2].result
    /\ req[1].stored_at = 300 /\ req[2].stored_at = 0
    /\ get_cache_key(req[1].query, req[1].config) \in DOMAIN cache_store
    /\ cache_store[get_cache_key(req[1].query, req[1].config)] = <<req[1].result, 300>>

\* C17: a direct lookup (with its eviction) or store for one cache key leaves
\* the entry of every other key as it was: present with the same response and
\* time stamp, or absent.
C17_DistinctKeysIndependent ==
    [][probe' /= probe =>
          LET own == get_cache_key(probe'.query, probe'.config) IN
          \A k \in (DOMAIN cache_store \cup DOMAIN cache_store') \ {own} :
              /\ k \in DOMAIN cache_store
              /\ k \in DOMAIN cache_store'
              /\ cache_store'[k] = cache_store[k]]_vars

\* a news lookup at age 300 evicted its entry while the entry of the general
\* key, stored at the same time and as old, is still in the cache
C17_Witness ==
    /\ probe /= <<>> /\ probe.op = "get"
    /\ probe.config.search_type = "news"
    /\ probe.found = <<<<[test |-> "data"], 0>>>>
    /\ probe.at = 300
    /\ probe.ret = NoneDict
    /\ DOMAIN cache_store = {get_cache_key("ai", SearchConfig)}
    /\ cache_store[get_cache_key("ai", SearchConfig)] = <<[test |-> "data"], 0>>

\* call r is the call search_web(query, phone_number) that search_the_web
\* makes: it has the default configuration; it has returned
LegacyCall(r) == req[r].pc = "Done" /\ req[r].config = SearchConfig

\* C18: for a query that is not empty, search_the_web returns a string that
\* is not empty: the direct answer if the result has one, else the summary of
\* the first insight, else the content of the first formatted result, else
\* the not-found message.
C18_LegacyNonEmpty ==
    \A r \in Callers :
        (LegacyCall(r) /\ req[r].query /= "") =>
            LET result == req[r].result
                text == search_the_web(result)
            IN  /\ text /= ""
                /\ text = IF "direct_answer" \in DOMAIN result THEN result.direct_answer
                          ELSE IF "insights" \in DOMAIN result /\ Len(result.insights) > 0
                               THEN result.insights[1].summary
                          ELSE IF "formatted_results" \in DOMAIN result
                                  /\ Len(result.formatted_results) > 0
                               THEN result.formatted_results[1].content
                          ELSE NotFound

\* C19: the arguments sent to the provider are those built from the
\* configuration, except that a news search is sent with search_depth
\* advanced and an image search with include_images on; a search of any
\* other type, known or not, is sent with the configured depth and flag and
\* its results are formatted as general results, one per raw result.
C19_DispatchByType ==
    (probe /= <<>> /\ probe.op = "dispatch") =>
        LET config == probe.config
            sent == probe.sent
            results == probe.response.results
        IN  /\ sent.query = probe.query
            /\ sent.max_results = config.max_results
            /\ sent.language = config.language
            /\ IF config.search_type = "news"
               THEN /\ sent.search_depth = "advanced"
                    /\ sent.include_images = config.include_images
               ELSE IF config.search_type = "image"
               THEN /\ sent.include_images = TRUE
                    /\ sent.search_depth = config.search_depth
               ELSE /\ sent.search_depth = config.search_depth
                    /\ sent.include_images = config.include_images
                    /\ ~probe.raises
                    /\ Len(probe.formatted) = Len(results)
                    /\ \A i \in 1..Len(results) :
                          /\ DOMAIN probe.formatted[i] =
                                {"title", "content", "url", "score", "published_date"}
                          /\ probe.formatted[i].title = Get(results[i], "title", "No title")
                          /\ probe.formatted[i].url = Get(results[i], "url", "")

\* a search of an unknown type with depth basic and the image flag on was
\* sent with both unchanged and its three results formatted as general ones
C19_Witness ==
    /\ probe /= <<>> /\ probe.op = "dispatch"
    /\ probe.config.search_type = "invalid_type"
    /\ probe.config.search_depth = "basic"
    /\ probe.config.include_images
    /\ probe.sent.search_depth = "basic"
    /\ probe.sent.include_images
    /\ Len(probe.formatted) = 3
    /\ probe.formatted[3].content = Rep(200, "x") \o "..."

\* this step is the cache lookup of a call of key k that finds the entry of
\* k as old as its TTL or older
StaleLookup(k) ==
    \E r \in Callers :
        /\ req[r].pc = "Idle" /\ req'[r].pc /= "Idle"
        /\ ~Blank(req'[r].query)
        /\ get_cache_key(req'[r].query, req'[r].config) = k
        /\ now - cache_store[k][2] >= StatedTtl(req'[r].config)

\* this step is clear_cache: it empties the cache and is no step of a call
ClearStep == cache_store' = EmptyDict /\ req' = req /\ now' = now

\* C20 as stated: a key leaves the cache only in a lookup of that key that
\* finds its entry as old as its TTL or older.
C20_OnlyLazyEviction ==
    [][\A k \in DOMAIN cache_store :
          k \notin DOMAIN cache_store' => StaleLookup(k)]_vars

\* C20 as amended: a key leaves the cache only in a lookup of that key that
\* finds its entry as old as its TTL or older, or in clear_cache, which
\* empties the cache; in particular no entry leaves because time passes.
C20_LazyEvictionOrClear ==
    [][\A k \in DOMAIN cache_store :
          k \notin DOMAIN cache_store' => (StaleLookup(k) \/ ClearStep)]_vars

\* the entry a call stored at time 0 stayed in the cache until time 600,
\* when the lookup of a second call of the same key deleted it
C20_Witness ==
    /\ now = 600
    /\ req[1].pc = "Done" /\ req[1].stored_at = 0
    /\ req[1].config.search_type = "general"
    /\ SameKey(1, 2)
    /\ req[2].evicted
    /\ req[2].pc = "ProviderDispatch"
    /\ cache_store = EmptyDict

\* the text the insight of a raw result is made from when the URL fetch had
\* the outcome page: the snippet, a space and the cleaned text of the page
SnippetAndPage(raw, page) ==
    Get(raw, "content", "") \o " " \o (IF page = NoneStr THEN "" ELSE clean_text(page))

\* call r has just handled its i-th raw result: the loop of
\* enhance_search_results is past it and not past the next one
JustHandled(r, i) == req[r].pc = "Enhance" /\ Len(req[r].pages) = i /\ i >= 1

\* C21 as stated: the loop fetches the URL of every raw result that has one,
\* and the insight it makes of such a result has the summary of the cleaned
\* snippet-and-page text.
C21_FetchEveryUrl ==
    \A r \in Callers :
        \A i \in 1..Len(req[r].pages) :
            JustHandled(r, i) =>
                LET raw == req[r].response.results[i] IN
                ("url" \in DOMAIN raw /\ raw.url /= "") =>
                    /\ req[r].pages[i] /= NoFetch
                    /\ req[r].enhanced.insights[i].summary =
                          summarize_text(clean_text(SnippetAndPage(raw, req[r].pages[i])),
                                         3, nlp)

\* C21 as amended: the loop fetches the URL of a raw result exactly when the
\* result has a URL and its snippet is shorter than 100 characters; the
\* insight it makes of such a result has the summary and keywords of the
\* cleaned snippet-and-page text, that of any other result those of the
\* cleaned snippet; and a call has made one fetch for each such result handled.
C21_FetchShortSnippets ==
    \A r \in Callers :
        /\ req[r].nfetch = Cardinality({i \in 1..Len(req[r].pages) : req[r].pages[i] /= NoFetch})
        /\ \A i \in 1..Len(req[r].pages) :
              JustHandled(r, i) =>
                  LET raw == req[r].response.results[i]
                      short == /\ "url" \in DOMAIN raw /\ raw.url /= ""
                               /\ Len(Get(raw, "content", "")) < 100
                      text == clean_text(IF short THEN SnippetAndPage(raw, req[r].pages[i])
                                         ELSE Get(raw, "content", ""))
                  IN  /\ short <=> req[r].pages[i] /= NoFetch
                      /\ Len(req[r].enhanced.insights) = i
                      /\ req[r].enhanced.insights[i].summary = summarize_text(text, 3, nlp)
                      /\ req[r].enhanced.insights[i].keywords = extract_keywords(text, 5, nlp)

\* a call returned two insights: the first of a short snippet and the page
\* fetched for it, the second of a snippet of 201 characters whose URL was
\* not fetched
C21_Witness ==
    \E r \in Callers :
        /\ req[r].pc = "Done"
        /\ Enhanced(r)
        /\ nlp
        /\ req[r].pages = <<"LOGIN  Cloudy.\n", NoFetch>>
        /\ req[r].response.results[2].url = "b.com/long"
        /\ req[r].nfetch = 1
        /\ req[r].result.insights[1].summary = "Rain today. Sun later. Cloudy."
        /\ req[r].result.insights[2].summary = Rep(201, "x")

\* the transitions of the state machine of a request, as pairs of positions
\* of a call: the cache check ends the call (hit), starts the fallback
\* (provider unavailable) or the Tavily call; the Tavily call leads to the
\* enhancement or (error) to the fallback; the enhancement to the store, the
\* store to the return; the fallback ends the call
MachineSteps ==
    {<<"Idle", "Done">>, <<"Idle", "FallbackDispatch">>, <<"Idle", "ProviderDispatch">>,
     <<"ProviderDispatch", "Enhance">>, <<"ProviderDispatch", "FallbackDispatch">>,
     <<"Enhance", "CacheStore">>, <<"CacheStore", "Return">>, <<"Return", "Done">>,
     <<"FallbackDispatch", "Done">>}

\* the Tavily call of call r returned a payload
ProviderSuccess(r) == req[r].nprimary = 1 /\ req[r].response /= EmptyDict

\* C22 as stated: a call changes its position only along the transitions of
\* the state machine, and a call that is over after its Tavily call returned
\* a payload has stored its response in the cache.
C22_PhaseMachine ==
    /\ [](\A r \in Callers :
            (req[r].pc = "Done" /\ ProviderSuccess(r)) => req[r].stored_at >= 0)
    /\ [][\A r \in Callers :
            req'[r].pc /= req[r].pc => <<req[r].pc, req'[r].pc>> \in MachineSteps]_vars

\* C22 as amended: a call changes its position only along the transitions of
\* the state machine or, when the enhancement raises, from the enhancement to
\* the fallback; the fallback is entered only when there is no Tavily client,
\* when the Tavily call raised or when the enhancement raised; a cache check
\* ends the call only with a cached response or the empty-query error; and a
\* call that is over after its Tavily call returned a payload has stored its
\* response in the cache unless the enhancement raised.
C22_PhaseMachineWithEnhanceFailure ==
    /\ [](\A r \in Callers :
            /\ (req[r].pc = "Done" /\ ProviderSuccess(r) /\ req[r].raised /= "enhance") =>
                  /\ req[r].stored_at >= 0
                  /\ req[r].result = req[r].enhanced
            /\ (req[r].pc = "Done" /\ req[r].raised = "enhance") =>
                  /\ req[r].stored_at < 0
                  /\ req[r].nfallback = 1)
    /\ [][\A r \in Callers :
            req'[r].pc /= req[r].pc =>
                /\ <<req[r].pc, req'[r].pc>> \in MachineSteps \cup {<<"Enhance", "FallbackDispatch">>}
                /\ <<req[r].pc, req'[r].pc>> = <<"Enhance", "FallbackDispatch">> =>
                      req'[r].raised = "enhance"
                /\ <<req[r].pc, req'[r].pc>> = <<"ProviderDispatch", "FallbackDispatch">> =>
                      req'[r].raised = "provider"
                /\ <<req[r].pc, req'[r].pc>> = <<"Idle", "FallbackDispatch">> =>
                      ~tavily_client /\ req'[r].raised = ""
                /\ <<req[r].pc, req'[r].pc>> = <<"Idle", "ProviderDispatch">> => tavily_client
                /\ <<req[r].pc, req'[r].pc>> = <<"Idle", "Done">> =>
                      \/ Blank(req'[r].query) /\ req'[r].result = EmptyQueryError
                      \/ Get(req'[r].result, "source", "") = "cache"]_vars

\* a news call whose Tavily call returned a payload and whose projection
\* raised is over with the answer of the fallback and has stored nothing
C22_Witness ==
    \E r \in Callers :
        /\ req[r].pc = "Done"
        /\ ProviderSuccess(r)
        /\ req[r].config.search_type = "news"
        /\ req[r].raised = "enhance"
        /\ Len(req[r].pages) = 3
        /\ req[r].stored_at < 0
        /\ req[r].result.status = "fallback"

\* the text a server reads from a quoted string: every escape %XX replaced
\* by its character
RECURSIVE Unquote(_)
Unquote(s) ==
    LET marks == {i \in 1..Len(s) : Char(s, i) = "%"} IN
    IF marks = {} THEN s
    ELSE LET i == Least(marks)
             esc == SubSeq(s, i, i + 2)
             ch == CHOOSE c \in DOMAIN Escapes : Escapes[c] = esc
         IN  SubSeq(s, 1, i - 1) \o ch \o Unquote(From(s, i + 3))

\* the value of the parameter q of the URL requested from the fallback
QueryOfUrl(url) ==
    SubSeq(url, Len("https://api.duckduckgo.com/?q=") + 1,
           Len(url) - Len("&format=json&no_html=1"))

\* text is the first min(len(query), 400) characters of query
IsPrefix400(text, query) ==
    /\ Len(text) = (IF Len(query) < 400 THEN Len(query) ELSE 400)
    /\ text = SubSeq(query, 1, Len(text))

\* C23: the query argument sent to the primary provider, and the query text
\* the parameter q of the fallback URL stands for, are the first
\* min(len(query), 400) characters of the caller's query.
C23_QueryTruncated ==
    (probe /= <<>> /\ probe.op = "transmit") =>
        /\ IsPrefix400(probe.sent, probe.query)
        /\ IsPrefix400(Unquote(QueryOfUrl(probe.url)), probe.query)
        /\ Len(probe.sent) <= 400

\* a query of 402 characters was sent cut after its 400th character, a
\* space, which the URL of the fallback carries as %20
C23_Witness ==
    /\ probe /= <<>> /\ probe.op = "transmit"
    /\ probe.query = Rep(399, "a") \o " c"
    /\ Len(probe.query) = 401
    /\ probe.sent = Rep(399, "a") \o " "
    /\ QueryOfUrl(probe.url) = Rep(399, "a") \o "%20"

\* configurations a and b differ in max_results and in nothing else
OnlyMaxResultsDiffers(a, b) ==
    /\ a.max_results /= b.max_results
    /\ [a EXCEPT !.max_results = b.max_results] = b

\* C24: when a call was answered by the primary provider and a second call
\* with the same query, whose configuration differs in max_results only, is
\* issued while the entry the first one stored is in the cache and younger
\* than its TTL, the second call is served from the cache with the results
\* and the result_count of the first one, and makes no Tavily call.
C24_MaxResultsCollision ==
    [][\A a, b \in Callers :
        LET key == get_cache_key(req[a].query, req[a].config) IN
        (/\ req[a].pc = "Done" /\ PrimaryAnswered(a)
         /\ ~Started(b) /\ Started(b)'
         /\ req'[b].query = req[a].query
         /\ OnlyMaxResultsDiffers(req[a].config, req'[b].config)
         /\ key \in DOMAIN cache_store
         /\ cache_store[key] = <<req[a].result, req[a].stored_at>>
         /\ now - req[a].stored_at < StatedTtl(req[a].config))
        => /\ req'[b].pc = "Done"
           /\ req'[b].result.source = "cache"
           /\ req'[b].result.formatted_results = req[a].result.formatted_results
           /\ req'[b].result.original_response = req[a].result.original_response
           /\ req'[b].result.metadata.result_count = req[a].result.metadata.result_count
           /\ req'[b].nprimary = 0
           /\ req'[b].params = IdleReq.params]_vars

\* a call that asked for one result was served the two results a call that
\* asked for ten had stored
C24_Witness ==
    \E a, b \in Callers :
        /\ req[a].pc = "Done" /\ PrimaryAnswered(a)
        /\ req[a].config.max_results = 10
        /\ req[b].pc = "Done"
        /\ req[b].query = req[a].query
        /\ req[b].config = [req[a].config EXCEPT !.max_results = 1]
        /\ req[b].result = DictWith(req[a].result, "source", "cache")
        /\ req[b].result.metadata.result_count = 2
        /\ Len(req[b].result.formatted_results) = 2
        /\ req[b].nprimary = 0

\* weak fairness of the steps of call r, WF_vars(Step(r)), with the enabling
\* condition of Step(r) written out as CanStep(r)
FairStep(r) == []<>(~CanStep(r)) \/ []<><<Step(r)>>_vars

\* the event loop runs every coroutine that is ready, and every network call
\* ends: requests.get after its timeout at the latest, the Tavily call when
\* the client's request returns or raises
FairSpec == Init /\ [][LiveNext]_vars /\ \A r \in Callers : FairStep(r)

SimpleCall(r) == req[r].config = [SearchConfig EXCEPT !.search_type = req[r].config.search_type]

\* call r was served from the cache
ServedFromCache(r) ==
    /\ req[r].pc = "Done" /\ Strip(req[r].query) /= ""
    /\ req[r].nprimary = 0 /\ req[r].nfallback = 0

\* call r was answered by the fallback provider
FallbackAnswered(r) ==
    /\ req[r].pc = "Done" /\ req[r].nfallback = 1
    /\ Get(req[r].result, "status", "") = "fallback"

\* C26: the source an endpoint reports for a call that is over is cache
\* exactly when the call was served from the cache, duckduckgo exactly when
\* the fallback provider answered it and tavily exactly when the primary
\* provider answered it; an error response is not reported with source tavily.
C26_SourceIdentifiesAnswerer ==
    \A r \in Callers :
        req[r].pc = "Done" =>
            LET source == api_search(req[r].result).source IN
            /\ SimpleCall(r) => simple_search(req[r].query, req[r].result).source = source
            /\ source = "cache" <=> ServedFromCache(r)
            /\ source = "duckduckgo" <=> FallbackAnswered(r)
            /\ source = "tavily" <=> PrimaryAnswered(r)
            /\ Get(req[r].result, "status", "") = "error" => source /= "tavily"

\* this step is the cache hit of call r
HitStep(r) ==
    /\ req[r].pc = "Idle" /\ req'[r].pc = "Done"
    /\ Get(req'[r].result, "source", "") = "cache"

\* this step is the set_cached_result of a call of key k
StoreStep(k) ==
    \E r \in Callers :
        /\ req[r].pc = "CacheStore" /\ req'[r].pc = "Return"
        /\ get_cache_key(req[r].query, req[r].config) = k

\* this step adds, removes or replaces the entry of key k
EntryChanged(k) ==
    \/ (k \in DOMAIN cache_store) /= (k \in DOMAIN cache_store')
    \/ k \in DOMAIN cache_store /\ k \in DOMAIN cache_store' /\ cache_store'[k] /= cache_store[k]

\* a cache hit leaves the cache as it is, and the timestamp of every entry
\* is the time at which a call of its key stored it
HitKeepsTimestamps ==
    /\ \A r \in Callers : HitStep(r) => cache_store' = cache_store
    /\ \A k \in DOMAIN cache_store' :
           \E r \in Callers :
               /\ get_cache_key(req'[r].query, req'[r].config) = k
               /\ req'[r].stored_at = cache_store'[k][2]

\* C27 as stated: a cache hit leaves the cache unchanged, timestamp
\* included, so that an entry is stale TTL seconds after its store whatever
\* hits there were; an entry changes only in a store or in a stale lookup of
\* its key.
C27_HitLeavesCacheUnchanged ==
    [][/\ HitKeepsTimestamps
       /\ \A k \in (DOMAIN cache_store) \cup (DOMAIN cache_store') :
              EntryChanged(k) =>
                  StoreStep(k) \/ (k \in DOMAIN cache_store /\ StaleLookup(k))]_vars

\* C27 as amended: a cache hit leaves the cache unchanged, timestamp
\* included, so that an entry is stale TTL seconds after its store whatever
\* hits there were; an entry changes only in a store or in a stale lookup of
\* its key, or in clear_cache.
C27_HitLeavesCacheUnchangedOrClear ==
    [][/\ HitKeepsTimestamps
       /\ \A k \in (DOMAIN cache_store) \cup (DOMAIN cache_store') :
              EntryChanged(k) =>
                  \/ StoreStep(k)
                  \/ k \in DOMAIN cache_store /\ StaleLookup(k)
                  \/ ClearStep]_vars

\* the entry call 1 stored at time 0 was served to call 2 and is stale at
\* time 600 with the timestamp of its store
C27_Witness ==
    /\ now = 600
    /\ req[1].pc = "Done" /\ req[1].stored_at = 0
    /\ req[1].config.search_type = "general"
    /\ req[2].pc = "Done"
    /\ req[2].result = DictWith(req[1].result, "source", "cache")
    /\ get_cache_key(req[1].query, req[1].config) \in DOMAIN cache_store
    /\ cache_store[get_cache_key(req[1].query, req[1].config)] = <<req[1].result, 0>>
    /\ ~Fresh(now, 0, Ttl(req[1].config))

\* the keys of the dict enhance_search_results returns
EnhancedKeys ==
    {"original_response", "insights", "metadata", "formatted_results", "direct_answer"}

\* value is the enhanced response call r made of the payload of its own
\* Tavily call, which returned without exception
EnhancedBy(value, r) ==
    /\ req[r].nprimary = 1 /\ req[r].nfallback = 0 /\ req[r].raised = ""
    /\ req[r].pc \in {"Return", "Done"}
    /\ value = req[r].enhanced
    /\ value.original_response = req[r].response
    /\ Len(value.insights) = Len(Get(req[r].response, "results", <<>>))

\* C28: every value in the cache is the enhanced response that a call of its
\* key made of the payload of a successful Tavily call, stamped with the time
\* of that call's store: it is no fallback response, no error response and
\* has no source key.
C28_OnlyEnhancedStored ==
    \A k \in DOMAIN cache_store :
        LET value == cache_store[k][1] IN
        /\ DOMAIN value \subseteq EnhancedKeys
        /\ "source" \notin DOMAIN value /\ "status" \notin DOMAIN value
        /\ \E r \in Callers :
               /\ get_cache_key(req[r].query, req[r].config) = k
               /\ EnhancedBy(value, r)
               /\ cache_store[k][2] = req[r].stored_at

\* a call was answered by the fallback and left nothing in the cache: a
\* later call of the same key missed, was answered by the provider and
\* stored the only entry
C28_Witness ==
    \E a, b \in Callers :
        /\ SameKey(a, b)
        /\ req[a].pc = "Done" /\ req[a].nfallback = 1
        /\ req[a].result.status = "fallback"
        /\ req[b].pc = "Done" /\ PrimaryAnswered(b)
        /\ DOMAIN cache_store = {get_cache_key(req[b].query, req[b].config)}
        /\ cache_store[get_cache_key(req[b].query, req[b].config)][1] = req[b].enhanced

\* a request with the query of the last dispatch and configuration c2 finds
\* the entry stored for the last dispatch a moment before
HitsEntryOfLast(c2) ==
    LET data == [original_response |-> probe.response]
        store == set_cached_result(EmptyDict, probe.query, probe.config, data, 0)
    IN  get_cached_result(store, probe.query, c2, 0) = data

\* a request with the query of the last dispatch and configuration c2 makes
\* the same call of tavily_client.search
SameProviderCall(c2) == Dispatch(Params(probe.query, c2), c2) = probe.sent

\* c1 and c2 are news configurations that differ in search_depth only
NewsDepthOnly(c1, c2) ==
    /\ c1.search_type = "news"
    /\ c1.search_depth /= c2.search_depth
    /\ c2 = [c1 EXCEPT !.search_depth = c2.search_depth]

\* C29 as stated: two requests with the same query whose calls of the
\* provider are identical share one cache entry, among them two news
\* requests that differ in the configured depth only.
C29_KeyAgreesWithProviderCall ==
    (probe /= <<>> /\ probe.op = "dispatch") =>
        \A c2 \in DispatchConfigs :
            /\ SameProviderCall(c2) => HitsEntryOfLast(c2)
            /\ NewsDepthOnly(probe.config, c2) => HitsEntryOfLast(c2)

\* C29 as amended: two requests with the same query share one cache entry
\* exactly when their configurations agree on search type, search depth and
\* time frame as configured, whether or not their calls of the provider are
\* identical; two news requests that differ in the configured depth only
\* make the same call of the provider, with depth advanced, and do not share
\* an entry.
C29_KeyFromConfiguration ==
    (probe /= <<>> /\ probe.op = "dispatch") =>
        \A c2 \in DispatchConfigs :
            /\ HitsEntryOfLast(c2) <=>
                  /\ c2.search_type = probe.config.search_type
                  /\ c2.search_depth = probe.config.search_depth
                  /\ c2.time_frame = probe.config.time_frame
            /\ NewsDepthOnly(probe.config, c2) =>
                  /\ SameProviderCall(c2)
                  /\ probe.sent.search_depth = "advanced"
                  /\ ~HitsEntryOfLast(c2)

\* a news search configured with depth basic was sent with depth advanced,
\* as the same search configured with depth advanced is, whose lookup does
\* not find the entry of the first
C29_Witness ==
    /\ probe /= <<>> /\ probe.op = "dispatch"
    /\ probe.config.search_type = "news"
    /\ probe.config.search_depth = "basic"
    /\ probe.sent.search_depth = "advanced"
    /\ LET c2 == [probe.config EXCEPT !.search_depth = "advanced"] IN
       /\ SameProviderCall(c2)
       /\ get_cache_key(probe.query, c2) /= get_cache_key(probe.query, probe.config)
       /\ ~HitsEntryOfLast(c2)

====
